---- MODULE Spec2Model ----
(***************************************************************************)
(* Model of the tiled foreground-detection scan of                         *)
(* updates/1-LoadingImages.ipynb: grid generation, chunking, the Dask      *)
(* workers running process_patch, compile_results consuming the futures as *)
(* they complete, and the construction of the threshold mask.              *)
(***************************************************************************)
EXTENDS Integers, Sequences, FiniteSets, TLC

VARIABLES
    sizes,          \* sizes["level_dimensions"]: <<w, h>> of level 0 and level 1
    reduction,      \* int(level_downsamples[1])
    num_chunks,     \* num_chunks of the scan cell
    slide,          \* pixels read_region returns at level 1 for a level-0 location
    pc,             \* position of the notebook's main thread
    start_loc_list, \* the chunks handed to client.map
    futures,        \* one record per dispatched chunk: the worker running it
    done_queue,     \* chunk numbers in the order their futures completed
    patches,        \* the list compile_results accumulates and returns
    mask,           \* the threshold mask
    mi,             \* position of the mask loop in patches
    error,          \* the exception that ended the scan cell, or "none"
    arg,            \* arguments of a function applied on its own
    ret,            \* its result; in a repeated scan, what the first run returned
    threads,        \* the loaderThread objects of the threaded loader cell
    joined,         \* how many of them the main thread has joined
    toy             \* the lists a and b of the toy Dask example and its loop index

\* The cells of the notebook other than the scan and the mask.
elsewhere == <<threads, joined, toy>>

vars == <<sizes, reduction, num_chunks, slide, pc, start_loc_list, futures,
          done_queue, patches, mask, mi, error, arg, ret, threads, joined, toy>>

(***************************************************************************)
(* Program constants and bounds of the model.                              *)
(***************************************************************************)
patch_size == 164

threshold_value == 80

MaxTiles == 6

MaxChunks == 2

MaxFaults == 1

MaxReduction == 2

MaxPatches == 2

MaxDen == 2

MaxInputs == 16

MaxLive == 2

MaxThreads == 3

MaxWidth == 6

MaxShade == 3

MaxArr == 4

MaxGrid == 3

MaxList == 49

MaxSplit == 32

Min(a, b) == IF a < b THEN a ELSE b

(***************************************************************************)
(* range(start, stop, step) for step > 0, as the sequence of its values.   *)
(***************************************************************************)
\* range with the stop value included.
RECURSIVE rangeInclusive(_, _, _)
rangeInclusive(start, stop, step) ==
    IF start > stop THEN <<>>
    ELSE <<start>> \o rangeInclusive(start + step, stop, step)

RECURSIVE range(_, _, _)
range(start, stop, step) ==
    IF start >= stop THEN <<>>
    ELSE <<start>> \o range(start + step, stop, step)

(***************************************************************************)
(* The list comprehension building start_loc_data: sy is the outer loop,   *)
(* sx the inner one, and each element is the tuple (sx, sy).               *)
(***************************************************************************)
RECURSIVE Concat(_)
Concat(ss) == IF ss = <<>> THEN <<>> ELSE Head(ss) \o Concat(Tail(ss))

\* The tuples built as (sy, sx).
start_loc_dataSwapped(w, h) ==
    LET xs == range(0, w, patch_size)
        ys == range(0, h, patch_size)
    IN  Concat([r \in 1..Len(ys) |-> [c \in 1..Len(xs) |-> <<ys[r], xs[c]>>]])

start_loc_data(w, h) ==
    LET xs == range(0, w, patch_size)
        ys == range(0, h, patch_size)
    IN  Concat([r \in 1..Len(ys) |-> [c \in 1..Len(xs) |-> <<xs[c], ys[r]>>]])

(***************************************************************************)
(* chunk_size and the slicing comprehension start_loc_list.  A slice       *)
(* data[i:i+n] stops at the end of the list.  range() raises ValueError    *)
(* for a step of zero.                                                     *)
(***************************************************************************)
chunk_size(data, n) == Len(data) \div n

\* A slice that loses its last element.
SliceShort(data, i, j) == SubSeq(data, i + 1, Min(j, Len(data)) - 1)

\* A slice that runs one element into the next one.
SliceOverlap(data, i, j) == SubSeq(data, i + 1, Min(j + 1, Len(data)))

Slice(data, i, j) == SubSeq(data, i + 1, Min(j, Len(data)))

ChunkStarts(data, n) == range(0, Len(data), chunk_size(data, n))

ChunkingRaises(data, n) == chunk_size(data, n) = 0

Chunks(data, n) ==
    LET starts == ChunkStarts(data, n)
    IN  [k \in 1..Len(starts) |->
            Slice(data, starts[k], starts[k] + chunk_size(data, n))]

(***************************************************************************)
(* threshold: arr.flatten().var() > threshold_value.  The variance is the  *)
(* mean of the squared deviations from the mean; with n = Len(arr) and     *)
(* s the sum of arr it is Dev2(arr) / n^3, so the comparison is made on    *)
(* integers.  The variance of an empty array is nan, and nan > t is False. *)
(***************************************************************************)
RECURSIVE Sum(_)
Sum(s) == IF s = <<>> THEN 0 ELSE Head(s) + Sum(Tail(s))

Dev2(arr) ==
    LET n == Len(arr)
        s == Sum(arr)
    IN  Sum([k \in 1..n |-> (n * arr[k] - s) * (n * arr[k] - s)])

\* The comparison made with >= instead of >.
VarGreaterEq(arr, t) ==
    LET n == Len(arr) IN n > 0 /\ Dev2(arr) >= t * n * n * n

VarGreater(arr, t) ==
    LET n == Len(arr) IN n > 0 /\ Dev2(arr) > t * n * n * n

threshold(arr, t) == IF VarGreater(arr, t) THEN TRUE ELSE FALSE

(***************************************************************************)
(* The slides the scan is run on.  A level-0 dimension is a multiple of    *)
(* patch_size or 64 pixels short of one; level 1 is level 0 divided by the *)
(* downsample factor.  Every tile of a slide is one of three pixel         *)
(* buffers: uniform (variance 0), variance exactly 80, variance above 80.  *)
(***************************************************************************)
Uniform == <<24, 24, 24, 24>>

Boundary == <<0, 8, 16, 24>>

Noisy == <<0, 8, 16, 25>>

Dims == {patch_size * q : q \in 1..MaxTiles} \cup
        {patch_size * q - 64 : q \in 1..MaxTiles}

NumTiles(w, h) == Len(range(0, w, patch_size)) * Len(range(0, h, patch_size))

Locations(w, h) ==
    {<<patch_size * c, patch_size * r>> :
        c \in 0..((w - 1) \div patch_size), r \in 0..((h - 1) \div patch_size)}

ImageKinds == {"blank", "tissue", "half", "edge"}

TileOf(kind, w, loc) ==
    CASE kind = "blank"  -> Uniform
      [] kind = "tissue" -> Noisy
      [] kind = "half"   -> IF 2 * loc[1] >= w THEN Noisy ELSE Uniform
      [] kind = "edge"   -> IF ((loc[1] + loc[2]) \div patch_size) % 2 = 0
                            THEN Boundary ELSE Noisy

SlideOf(kind, w, h) == [loc \in Locations(w, h) |-> TileOf(kind, w, loc)]

NoMask == [shape |-> <<0, 0>>, cells |-> <<>>]

NoToy == [a |-> <<>>, b |-> <<>>, i |-> 0]

Idle ==
    /\ start_loc_list = <<>>
    /\ futures = <<>>
    /\ done_queue = <<>>
    /\ patches = <<>>
    /\ mask = NoMask
    /\ mi = 0
    /\ error = "none"
    /\ threads = <<>>
    /\ joined = 0
    /\ toy = NoToy

Init ==
    /\ \E w \in Dims, h \in Dims, r \in 1..MaxReduction :
          /\ NumTiles(w, h) <= MaxTiles
          /\ sizes = << <<w, h>>, <<w \div r, h \div r>> >>
          /\ reduction = r
          /\ \E kind \in ImageKinds : slide = SlideOf(kind, w, h)
    /\ num_chunks \in 1..MaxChunks
    /\ pc = "scan"
    /\ Idle
    /\ arg = <<>>
    /\ ret = <<>>

(***************************************************************************)
(* The scan cell up to client.map: the grid, the chunks, one future per    *)
(* chunk.  compile_results then starts with an empty patches list.         *)
(***************************************************************************)
NewFuture ==
    [status |-> "pending", pos |-> 0, res |-> <<>>, wsi |-> 0, reads |-> <<>>,
     consumed |-> FALSE]

ScanDispatch ==
    /\ pc = "scan"
    /\ LET data == start_loc_data(sizes[1][1], sizes[1][2])
       IN  IF ChunkingRaises(data, num_chunks)
           THEN /\ pc' = "failed"
                /\ error' = "ValueError"
                /\ UNCHANGED <<start_loc_list, futures>>
           ELSE /\ start_loc_list' = Chunks(data, num_chunks)
                /\ futures' = [c \in 1..Len(Chunks(data, num_chunks)) |-> NewFuture]
                /\ pc' = "compile"
                /\ error' = error
    /\ patches' = <<>>
    /\ UNCHANGED <<elsewhere, sizes, reduction, num_chunks, slide, done_queue, mask, mi,
                   arg, ret>>

(***************************************************************************)
(* process_patch on a worker, one tile per step: the first step opens the  *)
(* worker's own handle on the slide, the step of the last tile returns     *)
(* res.  Opening the slide or reading a region may raise; at most          *)
(* MaxFaults calls raise during one scan.                                  *)
(***************************************************************************)
\* A failed chunk counted among those still to be processed.
ActiveOrFailed(f) == f.status \in {"pending", "running", "error"}

Active(f) == f.status \in {"pending", "running"}

\* One handle shared by every call.
OpenShared(c) == 1

\* wsi = CuImage(input_file): a handle of the call's own, named after it.
OpenHandle(c) == c

\* A region read at full patch size.
ReadRequestFullSize(start_loc) ==
    [location |-> start_loc, size |-> <<patch_size, patch_size>>, level |-> 1]

\* The arguments of wsi.read_region.
ReadRequest(start_loc) ==
    [location |-> start_loc,
     size |-> <<patch_size \div reduction, patch_size \div reduction>>,
     level |-> 1]

Faulted == {c \in DOMAIN futures : futures[c].status = "error"}

\* process_patch keeping every tile, whatever threshold says.
AcceptAll(res, start_loc, region) == Append(res, <<start_loc[1], start_loc[2]>>)

Accept(res, start_loc, region) ==
    IF threshold(region, threshold_value)
    THEN Append(res, <<start_loc[1], start_loc[2]>>)
    ELSE res

WorkerTile(c) ==
    /\ Active(futures[c])
    /\ LET f == futures[c]
           start_loc == start_loc_list[c][f.pos + 1]
           req == ReadRequest(start_loc)
           res == Accept(f.res, start_loc, slide[req.location])
           last == f.pos + 1 = Len(start_loc_list[c])
       IN  /\ futures' = [futures EXCEPT ![c] =
                   [f EXCEPT !.pos = f.pos + 1, !.res = res,
                             !.wsi = IF f.pos = 0 THEN OpenHandle(c) ELSE f.wsi,
                             !.reads = Append(f.reads, req),
                             !.status = IF last THEN "finished" ELSE "running"]]
           /\ done_queue' = IF last THEN Append(done_queue, c) ELSE done_queue
    /\ UNCHANGED <<elsewhere, sizes, reduction, num_chunks, slide, pc, start_loc_list,
                   patches, mask, mi, error, arg, ret>>

WorkerRaise(c) ==
    /\ Active(futures[c])
    /\ Cardinality(Faulted) < MaxFaults
    /\ futures' = [futures EXCEPT ![c].status = "error"]
    /\ done_queue' = Append(done_queue, c)
    /\ UNCHANGED <<elsewhere, sizes, reduction, num_chunks, slide, pc, start_loc_list,
                   patches, mask, mi, error, arg, ret>>

(***************************************************************************)
(* compile_results: one iteration of the as_completed loop per completed   *)
(* future, in completion order.  future.result() raises the worker's       *)
(* exception; after the last future the function returns patches.          *)
(***************************************************************************)
\* compile_results keeping only the result of the last non-empty future.
ExtendReplace(lst, res1) == IF res1 # <<>> THEN res1 ELSE lst

Extend(lst, res1) == IF res1 # <<>> THEN lst \o res1 ELSE lst

\* future.result() returning the partial list of a failed worker.
RaisesNever(f) == FALSE

Raises(f) == f.status = "error"

\* as_completed yielding a single future.
RemainingOne == Min(1, Len(futures))

\* as_completed waiting for one future more than were dispatched.
RemainingAndOne == Len(SelectSeq(futures, LAMBDA f : ~f.consumed)) + 1

Remaining == Len(SelectSeq(futures, LAMBDA f : ~f.consumed))

CompileNext ==
    /\ pc = "compile"
    /\ done_queue # <<>>
    /\ LET c == Head(done_queue)
       IN  /\ done_queue' = Tail(done_queue)
           /\ futures' = [futures EXCEPT ![c].consumed = TRUE]
           /\ IF Raises(futures[c])
              THEN /\ pc' = "failed"
                   /\ error' = "WorkerFailure"
                   /\ patches' = patches
              ELSE /\ patches' = Extend(patches, futures[c].res)
                   /\ pc' = IF Remaining = 1 THEN "scanned" ELSE "compile"
                   /\ error' = error
    /\ UNCHANGED <<elsewhere, sizes, reduction, num_chunks, slide, start_loc_list, mask, mi,
                   arg, ret>>

(***************************************************************************)
(* The mask cell: np.zeros of the level-1 grid, then one patch per step.   *)
(* An assignment to an index outside the array raises IndexError.          *)
(***************************************************************************)
\* np.zeros given (w // patch_size, h // patch_size).
ZerosTransposed(rows, cols) ==
    [shape |-> <<cols, rows>>,
     cells |-> [ij \in (0..(cols - 1)) \X (0..(rows - 1)) |-> 0]]

Zeros(rows, cols) ==
    [shape |-> <<rows, cols>>,
     cells |-> [ij \in (0..(rows - 1)) \X (0..(cols - 1)) |-> 0]]

\* The row computed from the x coordinate.
MaskRowFromX(patch) == patch[1] \div (patch_size * reduction)

MaskRow(patch) == patch[2] \div (patch_size * reduction)

\* The column computed without the downsample factor.
MaskColFullRes(patch) == patch[1] \div patch_size

MaskCol(patch) == patch[1] \div (patch_size * reduction)

\* The guard of the mask loop without its test of the column.
InGridRowOnly(i, j) == i < sizes[2][2] \div patch_size

InGrid(i, j) ==
    i < sizes[2][2] \div patch_size /\ j < sizes[2][1] \div patch_size

\* mask[i,j] += 1 in place of mask[i,j] = 1.
SetCellCount(m, patch) ==
    IF InGrid(MaskRow(patch), MaskCol(patch))
    THEN [m EXCEPT !.cells[<<MaskRow(patch), MaskCol(patch)>>] = @ + 1]
    ELSE m

SetCell(m, patch) ==
    IF InGrid(MaskRow(patch), MaskCol(patch))
    THEN [m EXCEPT !.cells[<<MaskRow(patch), MaskCol(patch)>>] = 1]
    ELSE m

\* The mask cell started while compile_results is still collecting.
MaskInitEarly ==
    /\ pc \in {"compile", "scanned"}
    /\ mask' = Zeros(sizes[2][2] \div patch_size, sizes[2][1] \div patch_size)
    /\ mi' = 1
    /\ pc' = "mask"
    /\ UNCHANGED <<elsewhere, sizes, reduction, num_chunks, slide, start_loc_list,
                   futures, done_queue, patches, error, arg, ret>>

MaskInit ==
    /\ pc = "scanned"
    /\ mask' = Zeros(sizes[2][2] \div patch_size, sizes[2][1] \div patch_size)
    /\ mi' = 1
    /\ pc' = "mask"
    /\ UNCHANGED <<elsewhere, sizes, reduction, num_chunks, slide, start_loc_list, futures,
                   done_queue, patches, error, arg, ret>>

IndexRaises(m, patch) ==
    /\ InGrid(MaskRow(patch), MaskCol(patch))
    /\ <<MaskRow(patch), MaskCol(patch)>> \notin DOMAIN m.cells

MaskStep ==
    /\ pc = "mask"
    /\ mi <= Len(patches)
    /\ IF IndexRaises(mask, patches[mi])
       THEN /\ pc' = "failed"
            /\ error' = "IndexError"
            /\ UNCHANGED <<mask, mi>>
       ELSE /\ mask' = SetCell(mask, patches[mi])
            /\ mi' = mi + 1
            /\ UNCHANGED <<pc, error>>
    /\ UNCHANGED <<elsewhere, sizes, reduction, num_chunks, slide, start_loc_list,
                   futures, done_queue, patches, arg, ret>>

MaskShow ==
    /\ pc = "mask"
    /\ mi > Len(patches)
    /\ pc' = "done"
    /\ UNCHANGED <<elsewhere, sizes, reduction, num_chunks, slide, start_loc_list, futures,
                   done_queue, patches, mask, mi, error, arg, ret>>

Next ==
    \/ ScanDispatch
    \/ \E c \in DOMAIN futures : WorkerTile(c)
    \/ \E c \in DOMAIN futures : WorkerRaise(c)
    \/ CompileNext
    \/ MaskInit
    \/ MaskStep
    \/ MaskShow

Spec == Init /\ [][Next]_vars

(***************************************************************************)
(* Grid generation applied on its own, to level-0 dimensions around the    *)
(* multiples of patch_size and to the 1000 x 1000 image.                   *)
(***************************************************************************)
GridDims ==
    {1000} \cup {d \in {patch_size * q + e : q \in 0..MaxGrid, e \in {-1, 0, 1}} : d > 0}

Parked ==
    /\ sizes = << <<0, 0>>, <<0, 0>> >>
    /\ reduction = 1
    /\ num_chunks = 1
    /\ slide = <<>>
    /\ Idle

InitGrid ==
    /\ Parked
    /\ pc = "call"
    /\ arg \in [w : GridDims, h : GridDims]
    /\ ret = <<>>

ApplyGrid ==
    /\ pc = "call"
    /\ ret' = start_loc_data(arg.w, arg.h)
    /\ pc' = "return"
    /\ UNCHANGED <<elsewhere, sizes, reduction, num_chunks, slide, start_loc_list, futures,
                   done_queue, patches, mask, mi, error, arg>>

SpecGrid == InitGrid /\ [][ApplyGrid]_vars

(***************************************************************************)
(* The chunking step applied on its own to a list of n tiles and a         *)
(* num_chunks of k.  The tiles are those of a grid seven tiles wide.       *)
(***************************************************************************)
TileList(n) ==
    [i \in 1..n |-> <<patch_size * ((i - 1) % 7), patch_size * ((i - 1) \div 7)>>]

InitChunk ==
    /\ Parked
    /\ pc = "call"
    /\ \E n \in 1..MaxList, k \in 1..MaxSplit : arg = [data |-> TileList(n), k |-> k]
    /\ ret = <<>>

ApplyChunk ==
    /\ pc = "call"
    /\ IF ChunkingRaises(arg.data, arg.k)
       THEN /\ pc' = "failed"
            /\ error' = "ValueError"
            /\ ret' = ret
       ELSE /\ pc' = "return"
            /\ error' = error
            /\ ret' = Chunks(arg.data, arg.k)
    /\ UNCHANGED <<elsewhere, sizes, reduction, num_chunks, slide, start_loc_list, futures,
                   done_queue, patches, mask, mi, arg>>

SpecChunk == InitChunk /\ [][ApplyChunk]_vars

(***************************************************************************)
(* threshold applied on its own, with and without its second argument.     *)
(***************************************************************************)
Shades == {8 * s : s \in 0..MaxShade} \cup {25}

Arrays == UNION {[1..n -> Shades] : n \in 0..MaxArr}

Thresholds == {-1, 0, 16, 80, 81}

InitThreshold ==
    /\ Parked
    /\ pc = "call"
    /\ \E a \in Arrays :
          \/ arg = <<a>>
          \/ \E t \in Thresholds : arg = <<a, t>>
    /\ ret = <<>>

ApplyThreshold ==
    /\ pc = "call"
    /\ ret' = IF Len(arg) = 1
              THEN threshold(arg[1], threshold_value)
              ELSE threshold(arg[1], arg[2])
    /\ pc' = "return"
    /\ UNCHANGED <<elsewhere, sizes, reduction, num_chunks, slide, start_loc_list, futures,
                   done_queue, patches, mask, mi, error, arg>>

SpecThreshold == InitThreshold /\ [][ApplyThreshold]_vars

(***************************************************************************)
(* The scan cell executed a second time on the same slide with the same    *)
(* parameters; ret keeps the list the first run returned.  Both runs are   *)
(* runs in which no call raises, and the mask is left out, so one          *)
(* downsample factor and whole-tile dimensions suffice.                    *)
(***************************************************************************)
InitTwice ==
    /\ Init
    /\ reduction = 1
    /\ sizes[1][1] % patch_size = 0
    /\ sizes[1][2] % patch_size = 0

Rerun ==
    /\ pc = "scanned"
    /\ ret = <<>>
    /\ ret' = <<patches>>
    /\ pc' = "scan"
    /\ start_loc_list' = <<>>
    /\ futures' = <<>>
    /\ done_queue' = <<>>
    /\ UNCHANGED <<elsewhere, sizes, reduction, num_chunks, slide, patches, mask, mi, error,
                   arg>>

NextTwice ==
    \/ ScanDispatch
    \/ \E c \in DOMAIN futures : WorkerTile(c)
    \/ CompileNext
    \/ Rerun

SpecTwice == InitTwice /\ [][NextTwice]_vars

(***************************************************************************)
(* The mask cell applied on its own to two patches lists holding the same  *)
(* tiles of a slide, in any order and with any repetition.                 *)
(***************************************************************************)
RECURSIVE MaskLoop(_, _)
MaskLoop(m, lst) ==
    IF lst = <<>> THEN m
    ELSE IF IndexRaises(m, Head(lst)) THEN "IndexError"
    ELSE MaskLoop(SetCell(m, Head(lst)), Tail(lst))

BuildMask(lst) ==
    MaskLoop(Zeros(sizes[2][2] \div patch_size, sizes[2][1] \div patch_size), lst)

PatchLists(w, h) == UNION {[1..n -> Locations(w, h)] : n \in 0..MaxPatches}

InitMask ==
    /\ \E w \in Dims, h \in Dims, r \in 1..MaxReduction :
          /\ NumTiles(w, h) <= MaxTiles
          /\ sizes = << <<w, h>>, <<w \div r, h \div r>> >>
          /\ reduction = r
          /\ \E a \in PatchLists(w, h), b \in PatchLists(w, h) :
                /\ {a[k] : k \in DOMAIN a} = {b[k] : k \in DOMAIN b}
                /\ arg = [a |-> a, b |-> b]
    /\ num_chunks = 1
    /\ slide = <<>>
    /\ Idle
    /\ pc = "call"
    /\ ret = <<>>

ApplyMask ==
    /\ pc = "call"
    /\ ret' = <<BuildMask(arg.a), BuildMask(arg.b)>>
    /\ pc' = "return"
    /\ UNCHANGED <<elsewhere, sizes, reduction, num_chunks, slide, start_loc_list, futures,
                   done_queue, patches, mask, mi, error, arg>>

SpecMask == InitMask /\ [][ApplyMask]_vars

(***************************************************************************)
(* The scan cell on its own, with every process taking its steps: the      *)
(* notebook's main thread runs the cell and compile_results, and the Dask  *)
(* workers run the process_patch calls they were given.                    *)
(***************************************************************************)
InitScan ==
    /\ Init
    /\ reduction = 1
    /\ NumTiles(sizes[1][1], sizes[1][2]) <= MaxLive

Workers == \E c \in DOMAIN futures : WorkerTile(c) \/ WorkerRaise(c)

NextScan ==
    \/ ScanDispatch
    \/ \E c \in DOMAIN futures : WorkerTile(c)
    \/ \E c \in DOMAIN futures : WorkerRaise(c)
    \/ CompileNext

SpecLive ==
    /\ InitScan
    /\ [][NextScan]_vars
    /\ WF_vars(ScanDispatch)
    /\ WF_vars(Workers)
    /\ WF_vars(CompileNext)

(***************************************************************************)
(* One region read on its own, for a level-1 downsample factor of n/d       *)
(* given as <<n, d>>: the metadata holds a float, and the notebook keeps    *)
(* its integer part as reduction.                                          *)
(***************************************************************************)
Downsamples ==
    {ds \in (1..(MaxReduction * MaxDen)) \X (1..MaxDen) : ds[1] >= ds[2]}

IntOf(ds) == ds[1] \div ds[2]

InitRead ==
    /\ \E c \in 0..MaxGrid, r \in 0..MaxGrid, ds \in Downsamples :
          /\ arg = [loc |-> <<patch_size * c, patch_size * r>>, ds |-> ds]
          /\ reduction = IntOf(ds)
    /\ sizes = << <<0, 0>>, <<0, 0>> >>
    /\ num_chunks = 1
    /\ slide = <<>>
    /\ Idle
    /\ pc = "call"
    /\ ret = <<>>

ApplyRead ==
    /\ pc = "call"
    /\ ret' = <<ReadRequest(arg.loc)>>
    /\ pc' = "return"
    /\ UNCHANGED <<elsewhere, sizes, reduction, num_chunks, slide, start_loc_list, futures,
                   done_queue, patches, mask, mi, error, arg>>

SpecRead == InitRead /\ [][ApplyRead]_vars

(***************************************************************************)
(* The threaded OpenSlide loader.  The main thread creates and starts      *)
(* num_threads loaderThread objects, joins them in the order of the list   *)
(* and prints its last line.  A thread's run computes x from its threadID, *)
(* reads its region and returns.  arg holds num_threads; level is 0.       *)
(***************************************************************************)
scan == <<reduction, num_chunks, slide, start_loc_list, futures, done_queue,
          patches, mask, mi, error, ret, toy>>

LoaderWidths == 1..MaxWidth

loaderThread(threadID) ==
    [threadID |-> threadID, status |-> "started", read |-> <<>>]

InitLoader ==
    /\ \E width \in LoaderWidths, n \in 1..MaxThreads :
          /\ sizes = << <<width, 2 * width>>, <<0, 0>> >>
          /\ arg = [num_threads |-> n]
    /\ reduction = 1
    /\ num_chunks = 1
    /\ slide = <<>>
    /\ Idle
    /\ pc = "start"
    /\ ret = <<>>

\* One iteration of for i in range(num_threads).
MainStart ==
    /\ pc = "start"
    /\ threads' = Append(threads, loaderThread(Len(threads)))
    /\ pc' = IF Len(threads) + 1 = arg.num_threads THEN "join" ELSE "start"
    /\ UNCHANGED <<scan, sizes, arg, joined>>

Offset(width, num_threads, threadID) == (width \div num_threads) * (1 - threadID)

\* run up to the call of read_region.
ThreadRead(k) ==
    /\ threads[k].status = "started"
    /\ LET width == sizes[1][1]
           height == sizes[1][2]
           x == Offset(width, arg.num_threads, threads[k].threadID)
       IN  threads' = [threads EXCEPT ![k] =
               [@ EXCEPT !.status = "reading",
                         !.read = [location |-> <<x, 0>>, level |-> 0,
                                   size |-> <<width \div arg.num_threads, height>>]]]
    /\ UNCHANGED <<scan, sizes, arg, pc, joined>>

\* run from the return of read_region to its end.
ThreadExit(k) ==
    /\ threads[k].status = "reading"
    /\ threads' = [threads EXCEPT ![k].status = "finished"]
    /\ UNCHANGED <<scan, sizes, arg, pc, joined>>

\* join returning whatever the thread is doing.
JoinReturnsAlways(t) == TRUE

JoinReturns(t) == t.status = "finished"

\* One iteration of for t in threads.
MainJoin ==
    /\ pc = "join"
    /\ joined < Len(threads)
    /\ JoinReturns(threads[joined + 1])
    /\ joined' = joined + 1
    /\ UNCHANGED <<scan, sizes, arg, pc, threads>>

\* print("Exiting Main Thread").
MainExit ==
    /\ pc = "join"
    /\ joined = Len(threads)
    /\ pc' = "exited"
    /\ UNCHANGED <<scan, sizes, arg, threads, joined>>

NextLoader ==
    \/ MainStart
    \/ \E k \in DOMAIN threads : ThreadRead(k)
    \/ \E k \in DOMAIN threads : ThreadExit(k)
    \/ MainJoin
    \/ MainExit

SpecLoader == InitLoader /\ [][NextLoader]_vars

(***************************************************************************)
(* The toy Dask example.  The list a starts as the integers 1..n (n is 16  *)
(* in the notebook, arg here), each held as [value |-> k]; add(x, y) is    *)
(* delayed, so a call only builds the task [x |-> x, y |-> y].  toy.i is   *)
(* the index of the for loop.  An index past the end of a list raises      *)
(* IndexError.  compute evaluates the graph below a task.  An int is not a *)
(* task: it has neither visualize nor compute.                             *)
(***************************************************************************)
notebook == <<sizes, reduction, num_chunks, slide, start_loc_list, futures,
              done_queue, patches, mask, mi, arg, threads, joined>>

\* A task that takes its first argument twice.
addFirstTwice(x, y) == [x |-> x, y |-> x]

add(x, y) == [x |-> x, y |-> y]

RECURSIVE compute(_)
compute(t) ==
    IF "value" \in DOMAIN t THEN t.value ELSE compute(t.x) + compute(t.y)

InitToy ==
    /\ sizes = << <<0, 0>>, <<0, 0>> >>
    /\ reduction = 1
    /\ num_chunks = 1
    /\ slide = <<>>
    /\ start_loc_list = <<>>
    /\ futures = <<>>
    /\ done_queue = <<>>
    /\ patches = <<>>
    /\ mask = NoMask
    /\ mi = 0
    /\ error = "none"
    /\ threads = <<>>
    /\ joined = 0
    /\ arg \in 1..MaxInputs
    /\ toy = [a |-> [i \in 1..arg |-> [value |-> i]], b |-> <<>>, i |-> 0]
    /\ pc = "while"
    /\ ret = <<>>

\* The test of while len(a)>1; after the loop, result = a[0] and
\* result.visualize(), which an int does not have.
ToyWhile ==
    /\ pc = "while"
    /\ IF Len(toy.a) > 1
       THEN /\ pc' = "for"
            /\ toy' = [toy EXCEPT !.i = 0]
            /\ UNCHANGED <<ret, error>>
       ELSE /\ toy' = toy
            /\ ret' = <<toy.a[1]>>
            /\ IF "value" \in DOMAIN toy.a[1]
               THEN pc' = "failed" /\ error' = "AttributeError"
               ELSE pc' = "result" /\ error' = error
    /\ UNCHANGED notebook

\* One iteration of for i in range(0,len(a),2).
ToyAdd ==
    /\ pc = "for"
    /\ toy.i < Len(toy.a)
    /\ IF toy.i + 1 >= Len(toy.a)
       THEN /\ pc' = "failed"
            /\ error' = "IndexError"
            /\ toy' = toy
       ELSE /\ toy' = [toy EXCEPT !.b = Append(@, add(toy.a[toy.i + 1], toy.a[toy.i + 2])),
                                  !.i = @ + 2]
            /\ UNCHANGED <<pc, error>>
    /\ UNCHANGED <<notebook, ret>>

\* a=b and b=[] once the for loop has ended.
ToyRound ==
    /\ pc = "for"
    /\ toy.i >= Len(toy.a)
    /\ toy' = [toy EXCEPT !.a = toy.b, !.b = <<>>]
    /\ pc' = "while"
    /\ UNCHANGED <<notebook, error, ret>>

\* result.compute().
ToyCompute ==
    /\ pc = "result"
    /\ ret' = <<ret[1], compute(ret[1])>>
    /\ pc' = "computed"
    /\ UNCHANGED <<notebook, error, toy>>

NextToy ==
    \/ ToyWhile
    \/ ToyAdd
    \/ ToyRound
    \/ ToyCompute

SpecToy == InitToy /\ [][NextToy]_vars /\ WF_vars(NextToy)

(***************************************************************************)
(* Properties of the scan.                                                 *)
(***************************************************************************)
Elems(q) == {q[k] : k \in DOMAIN q}

Returned == pc \in {"scanned", "mask", "done"}

\* What process_patch returns for a chunk: its foreground tiles, in order.
ChunkResult(chunk) ==
    SelectSeq(chunk, LAMBDA loc : threshold(slide[loc], threshold_value))

\* C1: whatever the order in which the chunks complete, the collection
\* compile_results returns is, as a set, the union of the result lists
\* process_patch returns for the chunks, each of which is fixed by its chunk.
C1_UnionAnyOrder ==
    Returned =>
        /\ \A c \in DOMAIN futures : futures[c].res = ChunkResult(start_loc_list[c])
        /\ Elems(patches) = UNION {Elems(futures[c].res) : c \in DOMAIN futures}

\* Two foreground chunks were consumed out of chunk order.
C1_Witness ==
    /\ pc = "scanned"
    /\ \E c, d \in DOMAIN futures :
          /\ c < d
          /\ futures[c].res # <<>>
          /\ futures[d].res # <<>>
          /\ patches = futures[d].res \o futures[c].res

\* C2: when no worker fails, the returned collection holds exactly the
\* grid coordinates whose tile threshold classifies as foreground.
C2_ExactlyForeground ==
    Returned =>
        Elems(patches) =
            {loc \in Locations(sizes[1][1], sizes[1][2]) :
                threshold(slide[loc], threshold_value)}

\* A scan over several chunks returned some tiles and rejected others.
C2_Witness ==
    /\ pc = "scanned"
    /\ Len(futures) > 1
    /\ patches # <<>>
    /\ \E loc \in Locations(sizes[1][1], sizes[1][2]) : loc \notin Elems(patches)

\* C3: the scan never returns a collection while a chunk has failed, has
\* not completed or has not been consumed; once a failed future has been
\* consumed the scan is in its failure outcome.
C3_FailFast ==
    /\ Returned =>
          \A c \in DOMAIN futures :
              futures[c].status = "finished" /\ futures[c].consumed
    /\ (\E c \in DOMAIN futures : futures[c].status = "error" /\ futures[c].consumed)
          => pc = "failed" /\ error = "WorkerFailure"

\* A worker raised after another chunk's tiles had been collected.
C3_Witness ==
    /\ pc = "failed"
    /\ error = "WorkerFailure"
    /\ patches # <<>>
    /\ \E c \in DOMAIN futures : futures[c].status = "error" /\ futures[c].pos > 0

(***************************************************************************)
(* Properties of threshold.                                                *)
(***************************************************************************)
SumSq(arr) == Sum([k \in DOMAIN arr |-> arr[k] * arr[k]])

\* n^2 times the variance of arr: n * sum(x^2) - sum(x)^2.
VarN2(arr) == Len(arr) * SumSq(arr) - Sum(arr) * Sum(arr)

GivenT == IF Len(arg) = 1 THEN 80 ELSE arg[2]

\* C4: threshold returns True exactly when the variance of the flattened
\* pixels is strictly greater than t, False when it equals t; t defaults
\* to 80.
C4_StrictVariance ==
    (pc = "return" /\ arg[1] # <<>>) =>
        LET n == Len(arg[1])
        IN  /\ ret \in BOOLEAN
            /\ ret <=> VarN2(arg[1]) > GivenT * n * n
            /\ VarN2(arg[1]) = GivenT * n * n => ret = FALSE

\* threshold was called without a threshold on a tile of variance 80.
C4_Witness ==
    /\ pc = "return"
    /\ arg = <<Boundary>>
    /\ VarN2(Boundary) = 80 * 16
    /\ ret = FALSE

(***************************************************************************)
(* Properties of the grid.                                                 *)
(***************************************************************************)
CeilDiv(a, b) == (a + b - 1) \div b

Starts(d) == {x \in 0..(d - 1) : x % patch_size = 0}

\* C5: the coordinate list holds exactly the pairs (x, y) of multiples of
\* patch_size below W and below H, ceil(W/patch_size) * ceil(H/patch_size)
\* of them; a 1000 x 1000 image has the 7 starts 0, 164, ..., 984 per axis.
C5_Grid ==
    pc = "return" =>
        /\ Elems(ret) = Starts(arg.w) \X Starts(arg.h)
        /\ Len(ret) = CeilDiv(arg.w, patch_size) * CeilDiv(arg.h, patch_size)
        /\ (arg.w = 1000 /\ arg.h = 1000) =>
              /\ {loc[1] : loc \in Elems(ret)} = {0, 164, 328, 492, 656, 820, 984}
              /\ {loc[2] : loc \in Elems(ret)} = {0, 164, 328, 492, 656, 820, 984}

\* The grid of the 1000 x 1000 image was generated.
C5_Witness ==
    /\ pc = "return"
    /\ arg = [w |-> 1000, h |-> 1000]
    /\ Len(ret) = 49
    /\ ret[49] = <<984, 984>>

(***************************************************************************)
(* Properties of the chunking step.                                        *)
(***************************************************************************)
Chunkable == pc = "return" /\ Len(arg.data) >= arg.k

\* C6: the chunking step yields exactly num_chunks sub-lists.
C6_ExactlyNumChunks == Chunkable => Len(ret) = arg.k

\* C7: the sizes of any two chunks differ by at most 1.
C7_Balanced ==
    Chunkable =>
        \A i, j \in DOMAIN ret : Len(ret[i]) - Len(ret[j]) <= 1

\* C8: the chunks, concatenated in chunk order, are the original tile
\* list: every tile is in exactly one chunk, in its original order, and no
\* chunk is empty.
C8_Partition ==
    Chunkable =>
        /\ Concat(ret) = arg.data
        /\ \A i \in DOMAIN ret : ret[i] # <<>>
        /\ \A t \in Elems(arg.data) :
              Cardinality({i \in DOMAIN ret : t \in Elems(ret[i])}) = 1

\* The 49 tiles of the 7 x 7 grid were chunked with num_chunks = 32.
C8_Witness ==
    /\ pc = "return"
    /\ Len(arg.data) = 49
    /\ arg.k = 32
    /\ Len(ret) > 1

(***************************************************************************)
(* Properties of the mask.                                                 *)
(***************************************************************************)
GridRows == sizes[2][2] \div patch_size

GridCols == sizes[2][1] \div patch_size

Projects(patch, i, j) ==
    /\ i = patch[2] \div (patch_size * reduction)
    /\ j = patch[1] \div (patch_size * reduction)

\* C9: once the mask is built, a cell (i, j) of the grid is 1 exactly when
\* an accepted tile (x, y) has i = y // (patch_size * reduction) and
\* j = x // (patch_size * reduction); every other cell is 0.
C9_MaskCells ==
    pc = "done" =>
        /\ DOMAIN mask.cells = (0..(GridRows - 1)) \X (0..(GridCols - 1))
        /\ \A ij \in DOMAIN mask.cells :
              /\ mask.cells[ij] \in {0, 1}
              /\ mask.cells[ij] = 1 <=>
                    \E p \in Elems(patches) : Projects(p, ij[1], ij[2])

\* A mask of a reduced level was built with a set cell and a skipped tile.
C9_Witness ==
    /\ pc = "done"
    /\ reduction > 1
    /\ \E ij \in DOMAIN mask.cells : mask.cells[ij] = 1
    /\ \E p \in Elems(patches) :
          \A ij \in DOMAIN mask.cells : ~Projects(p, ij[1], ij[2])

\* C10: the mask built from an empty collection has the shape
\* (h_L // patch_size, w_L // patch_size) and every cell 0.
C10_EmptyMask ==
    (pc \in {"mask", "done"} /\ patches = <<>>) =>
        /\ mask.shape = <<GridRows, GridCols>>
        /\ DOMAIN mask.cells = (0..(GridRows - 1)) \X (0..(GridCols - 1))
        /\ \A ij \in DOMAIN mask.cells : mask.cells[ij] = 0

\* The mask of a slide without foreground was built, wider than high.
C10_Witness ==
    /\ pc = "done"
    /\ patches = <<>>
    /\ GridRows >= 1
    /\ GridCols > GridRows

\* An accepted tile projects outside the mask grid.
OutOfRange(patch) ==
    \/ patch[2] \div (patch_size * reduction) >= GridRows
    \/ patch[1] \div (patch_size * reduction) >= GridCols

\* C11: the mask loop never fails and never changes the extent of the
\* grid; a step on an accepted coordinate whose projected index is out of
\* range leaves the grid as it was.
C11_GuardedWrites ==
    [][(pc = "mask" /\ mi <= Len(patches)) =>
          /\ pc' = "mask"
          /\ error' = "none"
          /\ mi' = mi + 1
          /\ mask'.shape = mask.shape
          /\ DOMAIN mask'.cells = (0..(GridRows - 1)) \X (0..(GridCols - 1))
          /\ OutOfRange(patches[mi]) => mask' = mask]_vars

\* The loop has passed a tile of the last column that projects out of range.
C11_Witness ==
    /\ pc = "mask"
    /\ mi > 1
    /\ OutOfRange(patches[mi - 1])
    /\ patches[mi - 1][1] \div (patch_size * reduction) >= GridCols
    /\ patches[mi - 1][2] \div (patch_size * reduction) < GridRows

\* C12: a second run of the scan on the same slide with the same
\* parameters returns the same set of accepted tiles as the first,
\* whatever the scheduling of the workers in either run.
C12_SameSetTwice ==
    (pc = "scanned" /\ ret # <<>>) => Elems(patches) = Elems(ret[1])

\* The second run returned the tiles in another order than the first.
C12_Witness ==
    /\ pc = "scanned"
    /\ ret # <<>>
    /\ patches # ret[1]
    /\ Len(patches) > 1

\* C13: two patches lists holding the same accepted tiles, in whatever
\* order and with whatever repetitions, give the same mask grid.
C13_MaskOrderFree == pc = "return" => ret[1] = ret[2]

\* A tile entered once and entered twice set the same cell once.
C13_Witness ==
    /\ pc = "return"
    /\ Len(arg.a) = 1
    /\ Len(arg.b) = 2
    /\ reduction > 1
    /\ \E ij \in DOMAIN ret[2].cells : ret[2].cells[ij] = 1

\* The slide is uniform on the tiles left of its middle and noisy on the
\* others, and has tiles of both kinds.
HalfSlide ==
    /\ \A loc \in DOMAIN slide :
          slide[loc] = IF 2 * loc[1] >= sizes[1][1] THEN Noisy ELSE Uniform
    /\ \E loc \in DOMAIN slide : slide[loc] = Uniform
    /\ \E loc \in DOMAIN slide : slide[loc] = Noisy

\* The level-0 column at which the columns of mask column j end.
CellTo(j) == (j + 1) * patch_size * reduction

\* C14: on a slide whose left half is uniform and whose right half has a
\* variance above the threshold, the scan accepts only tiles of the right
\* half; every nonzero mask cell overlaps that half, and every cell that
\* reaches at least one tile into it is nonzero.
C14_HalfSlide ==
    (pc = "done" /\ HalfSlide) =>
        /\ \A p \in Elems(patches) : 2 * p[1] >= sizes[1][1]
        /\ \A ij \in DOMAIN mask.cells :
              /\ mask.cells[ij] = 1 => 2 * CellTo(ij[2]) > sizes[1][1]
              /\ 2 * (CellTo(ij[2]) - patch_size) >= sizes[1][1] => mask.cells[ij] = 1

\* The mask of a half slide has a zero column and a nonzero column.
C14_Witness ==
    /\ pc = "done"
    /\ HalfSlide
    /\ \E ij \in DOMAIN mask.cells : mask.cells[ij] = 1
    /\ \E ij \in DOMAIN mask.cells : mask.cells[ij] = 0

\* floor(patch_size / (n/d)) for a downsample factor n/d.
FloorOfQuotient(ds) == (patch_size * ds[2]) \div ds[1]

\* C15: a region read uses the tile's level-0 coordinate as location, level
\* 1, and floor(patch_size / downsample(1)) as width and as height.
C15_FloorOfDownsample ==
    pc = "return" =>
        /\ ret[1].location = arg.loc
        /\ ret[1].level = 1
        /\ ret[1].size = <<FloorOfQuotient(arg.ds), FloorOfQuotient(arg.ds)>>

\* The places <<c, k>> of the chunks at which loc stands.
AssignedAt(loc) ==
    {ck \in (DOMAIN start_loc_list) \X (1..MaxTiles) :
        /\ ck[2] \in DOMAIN start_loc_list[ck[1]]
        /\ start_loc_list[ck[1]][ck[2]] = loc}

\* The reads <<c, k>> of the workers whose location is loc; each read is
\* followed by one call of threshold in the same iteration.
ReadAt(loc) ==
    {ck \in (DOMAIN futures) \X (1..MaxTiles) :
        /\ ck[2] \in DOMAIN futures[ck[1]].reads
        /\ futures[ck[1]].reads[ck[2]].location = loc}

\* C16: in a scan without failure every grid coordinate stands in exactly
\* one chunk and is read and classified exactly once, and the returned
\* collection holds no coordinate twice.
C16_ExactlyOnce ==
    Returned =>
        /\ \A loc \in DOMAIN slide :
              /\ Cardinality(AssignedAt(loc)) = 1
              /\ Cardinality(ReadAt(loc)) = 1
        /\ \A c \in DOMAIN futures :
              /\ Len(futures[c].reads) = Len(start_loc_list[c])
              /\ \A k \in DOMAIN futures[c].reads :
                    futures[c].reads[k].location \in DOMAIN slide
        /\ Cardinality(Elems(patches)) = Len(patches)

\* A scan of several chunks returned more than one accepted tile.
C16_Witness ==
    /\ pc = "scanned"
    /\ Len(futures) > 1
    /\ Len(patches) > 1
    /\ \A c \in DOMAIN futures : futures[c].res # <<>>

\* C17: a uniform tile is classified background by threshold whatever
\* threshold value is passed.
C17_UniformAnyThreshold ==
    (pc = "return" /\ Cardinality(Elems(arg[1])) = 1) => ret = FALSE

\* C17 as it holds: a uniform tile is classified background for every
\* threshold value that is not negative, the default of 80 included.
C17_UniformBackground ==
    (pc = "return" /\ Cardinality(Elems(arg[1])) = 1 /\ GivenT >= 0) => ret = FALSE

\* threshold was applied to a uniform, non-empty tile with a threshold of 0.
C17_Witness ==
    /\ pc = "return"
    /\ Len(arg[1]) > 1
    /\ Cardinality(Elems(arg[1])) = 1
    /\ Len(arg) = 2
    /\ GivenT = 0
    /\ ret = FALSE

\* The chunks whose failure compile_results met.
FailedChunks ==
    {c \in DOMAIN futures : futures[c].status = "error" /\ futures[c].consumed}

\* A failure report that names chunk c.
ChunkFailure(c) == "WorkerFailure in chunk " \o ToString(c)

\* C18: when the scan fails because a worker's chunk could not be
\* processed, the failure the caller gets names a chunk that failed.
C18_FailureNamesChunk ==
    (pc = "failed" /\ FailedChunks # {}) =>
        \E c \in FailedChunks : error = ChunkFailure(c)

\* What belongs to the worker of a future: its position in its chunk, its
\* local result list, its handle, the reads made through it, its outcome.
WorkerState(f) == <<f.status, f.pos, f.res, f.wsi, f.reads>>

Started(f) == f.pos > 0

\* The workers whose state the step changes.
Touched ==
    {c \in (DOMAIN futures) \cap (DOMAIN futures') :
        WorkerState(futures'[c]) # WorkerState(futures[c])}

\* C19: workers share no mutable state.  A step changes the state of at
\* most one worker.  A worker starts with an empty result list; each of
\* its steps processes the next tile of its own chunk and appends that
\* tile or nothing, as threshold decides on that tile alone, whatever the
\* other workers did in between; and the handle it works with differs
\* from the handle of every other worker that opened one.
C19_NoSharedState ==
    [][futures' # futures =>
          /\ Cardinality(Touched) <= 1
          /\ \A c \in DOMAIN futures' :
                IF c \notin DOMAIN futures
                THEN futures'[c].pos = 0 /\ futures'[c].res = <<>>
                ELSE IF futures'[c].pos = futures[c].pos
                THEN /\ futures'[c].res = futures[c].res
                     /\ futures'[c].wsi = futures[c].wsi
                ELSE /\ futures'[c].pos = futures[c].pos + 1
                     /\ futures'[c].res =
                           futures[c].res \o
                               ChunkResult(<<start_loc_list[c][futures'[c].pos]>>)
                     /\ \A d \in DOMAIN futures' :
                           (Started(futures'[d]) /\ c # d)
                               => futures'[c].wsi # futures'[d].wsi]_vars

\* Two workers are in the middle of their chunks at the same time, each
\* with an accepted tile.
C19_Witness ==
    /\ pc = "compile"
    /\ \E c, d \in DOMAIN futures :
          /\ c # d
          /\ futures[c].status = "running" /\ futures[c].res # <<>>
          /\ futures[d].status = "running" /\ futures[d].res # <<>>

\* compile_results has finished, by returning or by failing.
CompileOver == Returned \/ (pc = "failed" /\ error = "WorkerFailure")

TileStarts(d) == {patch_size * q : q \in 0..((d - 1) \div patch_size)}

\* C21: one coordinate convention holds end to end.  Every tile tuple of
\* the grid is (x, y) with x a column start below the level-0 width and y
\* a row start below the level-0 height; every read is located at the
\* tuple of its tile, unchanged; every result tuple is a tuple of the
\* worker's chunk; and every set mask cell (i, j) has i below
\* h // patch_size and j below w // patch_size and comes from an accepted
\* tile whose y gives i and whose x gives j.
C21_OneConvention ==
    /\ pc # "scan" /\ error # "ValueError" =>
          /\ UNION {Elems(start_loc_list[c]) : c \in DOMAIN start_loc_list}
                = TileStarts(sizes[1][1]) \X TileStarts(sizes[1][2])
          /\ \A c \in DOMAIN futures :
                /\ \A k \in DOMAIN futures[c].reads :
                      futures[c].reads[k].location = start_loc_list[c][k]
                /\ Elems(futures[c].res) \subseteq Elems(start_loc_list[c])
    /\ pc \in {"mask", "done"} =>
          /\ mask.shape = <<sizes[2][2] \div patch_size, sizes[2][1] \div patch_size>>
          /\ \A ij \in DOMAIN mask.cells :
                mask.cells[ij] = 1 =>
                    /\ ij[1] < sizes[2][2] \div patch_size
                    /\ ij[2] < sizes[2][1] \div patch_size
                    /\ \E p \in Elems(patches) :
                          /\ ij[2] = p[1] \div (patch_size * reduction)
                          /\ ij[1] = p[2] \div (patch_size * reduction)

\* The mask of a slide wider than high holds a set cell off the diagonal.
C21_Witness ==
    /\ pc = "done"
    /\ sizes[1][1] > sizes[1][2]
    /\ \E ij \in DOMAIN mask.cells : mask.cells[ij] = 1 /\ ij[2] > ij[1]

(***************************************************************************)
(* Properties of the threaded loader.                                      *)
(***************************************************************************)
\* The level-0 columns the read of a thread asks for.
Strip(t) == t.read.location[1]..(t.read.location[1] + t.read.size[1] - 1)

Reading == {k \in DOMAIN threads : threads[k].status # "started"}

\* C22: the threads load different parts of the image: the x offsets are
\* pairwise distinct, every strip lies inside [0, width) and the strips
\* are pairwise disjoint.
C22_DisjointStrips ==
    \A k, l \in Reading :
        /\ Strip(threads[k]) \subseteq 0..(sizes[1][1] - 1)
        /\ k # l =>
              /\ threads[k].read.location[1] # threads[l].read.location[1]
              /\ Strip(threads[k]) \cap Strip(threads[l]) = {}

\* C29: the main thread reaches its final step only after every one of the
\* num_threads loader threads has finished run, and until then no step of
\* the main thread passes a thread that is still running.
C29_JoinBeforeExit ==
    /\ pc = "exited" =>
          /\ Len(threads) = arg.num_threads
          /\ \A k \in DOMAIN threads : threads[k].status = "finished"
    /\ \A k \in 1..joined : threads[k].status = "finished"

\* The main thread has printed its last line after three threads or more,
\* each of which has read its region.
C29_Witness ==
    /\ pc = "exited"
    /\ Len(threads) > 2
    /\ joined = Len(threads)
    /\ \A k \in DOMAIN threads : threads[k].read # <<>>

\* C23: the mask is built once from the final collection.  No step writes
\* the mask while compile_results still waits for a chunk; every change of
\* the mask is the creation of the grid or a step of the build loop, which
\* leave the collection as it is; and once the loop has ended the mask
\* stays as it is.
C23_BuiltOnce ==
    [][/\ mask' # mask =>
             /\ pc \in {"scanned", "mask"}
             /\ pc' = "mask"
             /\ patches' = patches
             /\ \A c \in DOMAIN futures :
                   futures[c].status = "finished" /\ futures[c].consumed
       /\ pc = "scanned" /\ pc' = "mask" =>
             \A ij \in DOMAIN mask'.cells : mask'.cells[ij] = 0
       /\ pc = "done" => mask' = mask /\ pc' = "done"]_vars

\* The build loop ended after it had set two cells or more.
C23_Witness ==
    /\ pc = "done"
    /\ Cardinality({ij \in DOMAIN mask.cells : mask.cells[ij] = 1}) > 1

\* C24: no automatic retry takes place.  A scan has one future per chunk,
\* the chunks and the number of futures stay as dispatched, no worker goes
\* past the end of its chunk, and a chunk that has returned a result or a
\* failure is not processed again.
C24_NoRetry ==
    [][/\ Len(futures') = Len(start_loc_list')
       /\ \A c \in DOMAIN futures' :
             /\ futures'[c].pos <= Len(start_loc_list'[c])
             /\ Len(futures'[c].reads) = futures'[c].pos
       /\ futures # <<>> =>
             /\ start_loc_list' = start_loc_list
             /\ Len(futures') = Len(futures)
             /\ \A c \in DOMAIN futures :
                   futures[c].status \in {"finished", "error"} =>
                       WorkerState(futures'[c]) = WorkerState(futures[c])]_vars

\* The scan has failed on a chunk that had been processed in part, and
\* another chunk has finished since.
C24_Witness ==
    /\ pc = "failed"
    /\ \E c, d \in DOMAIN futures :
          /\ futures[c].status = "error" /\ futures[c].consumed
          /\ futures[c].pos > 0
          /\ futures[d].status = "finished" /\ ~futures[d].consumed

\* (x, y) starts inside the level-0 image.
StartsInside(loc) ==
    /\ 0 <= loc[1] /\ loc[1] < sizes[1][1]
    /\ 0 <= loc[2] /\ loc[2] < sizes[1][2]

\* No tile of the grid lies right of loc; no tile lies below it.
LastColumn(loc) ==
    \A c \in DOMAIN start_loc_list :
        \A k \in DOMAIN start_loc_list[c] : start_loc_list[c][k][1] <= loc[1]

LastRow(loc) ==
    \A c \in DOMAIN start_loc_list :
        \A k \in DOMAIN start_loc_list[c] : start_loc_list[c][k][2] <= loc[2]

\* C25: every generated tile coordinate (x, y) has 0 <= x < W and
\* 0 <= y < H, every read of the scan is located at such a coordinate, so
\* none lies entirely outside the image, and a tile that extends past the
\* right or lower boundary is in the last column or the last row.
C25_InsideImage ==
    /\ \A c \in DOMAIN start_loc_list :
          \A k \in DOMAIN start_loc_list[c] :
              LET loc == start_loc_list[c][k]
              IN  /\ StartsInside(loc)
                  /\ loc[1] + patch_size > sizes[1][1] => LastColumn(loc)
                  /\ loc[2] + patch_size > sizes[1][2] => LastRow(loc)
    /\ \A c \in DOMAIN futures :
          \A k \in DOMAIN futures[c].reads :
              StartsInside(futures[c].reads[k].location)

\* A tile that extends past the right boundary of a slide of several
\* columns has been read.
C25_Witness ==
    \E c \in DOMAIN futures :
        \E k \in DOMAIN futures[c].reads :
            /\ futures[c].reads[k].location[1] > 0
            /\ futures[c].reads[k].location[1] + patch_size > sizes[1][1]

\* C26: the chunking step is total: for every tile count N >= 1 and every
\* num_chunks >= 1, num_chunks > N included, it completes without error
\* and yields non-empty chunks that partition the tile list.
C26_Total ==
    pc # "call" =>
        /\ pc = "return"
        /\ error = "none"
        /\ Concat(ret) = arg.data
        /\ \A i \in DOMAIN ret : ret[i] # <<>>

\* The tile at patch lies wholly inside the level-0 image.
WhollyInside(patch) ==
    /\ patch[1] + patch_size <= sizes[1][1]
    /\ patch[2] + patch_size <= sizes[1][2]

\* C27: every accepted tile that lies wholly inside the level-0 image sets
\* a mask cell; the guard skips only tiles that extend past the boundary.
C27_InsideTilesSet ==
    pc = "done" =>
        \A p \in Elems(patches) :
            WhollyInside(p) =>
                \E ij \in DOMAIN mask.cells :
                    Projects(p, ij[1], ij[2]) /\ mask.cells[ij] = 1

\* The futures compile_results has taken.
Consumed == {c \in DOMAIN futures : futures[c].consumed}

\* C28: when every worker goes on until its chunk has returned a result or
\* a failure, the scan terminates: compile_results takes each dispatched
\* future at most once, one per step, and it returns or fails.
C28_Terminates ==
    /\ [][pc = "compile" =>
             /\ Consumed \subseteq {c \in DOMAIN futures' : futures'[c].consumed}
             /\ Cardinality({c \in DOMAIN futures' : futures'[c].consumed})
                   <= Cardinality(Consumed) + 1
             /\ pc' # pc =>
                   Cardinality({c \in DOMAIN futures' : futures'[c].consumed})
                       = Cardinality(Consumed) + 1]_vars
    /\ (pc = "compile") ~> (pc \in {"scanned", "failed"})

\* compile_results has returned after taking the futures of two chunks,
\* the second before the first.
C28_Witness ==
    /\ pc = "scanned"
    /\ Cardinality(Consumed) > 1
    /\ patches = futures[2].res \o futures[1].res
    /\ futures[1].res # <<>>
    /\ Cardinality(Consumed) = Len(futures)

(***************************************************************************)
(* Properties of the toy Dask example.                                     *)
(***************************************************************************)
RECURSIVE IsPowerOfTwo(_)
IsPowerOfTwo(n) == n = 1 \/ (n > 1 /\ n % 2 = 0 /\ IsPowerOfTwo(n \div 2))

\* C30: for an input list whose length is a power of two the reduction
\* ends without a failure, and the value computed from the task it leaves
\* is the sum of the inputs.
C30_PowerOfTwo ==
    IsPowerOfTwo(arg) =>
        /\ pc # "failed"
        /\ pc = "computed" => ret[2] = (arg * (arg + 1)) \div 2

\* C30 as it holds, for a length that is a power of two and at least 2:
\* no index goes past the end of the list and nothing else fails; every
\* add task of a round is the task over the two neighbours of the previous
\* round at its place; a round halves the list; and the loop ends, leaving
\* one task whose computed value is the sum of the inputs (136 for 1..16).
C30_Reduction ==
    /\ [](IsPowerOfTwo(arg) /\ arg > 1 =>
            /\ pc # "failed"
            /\ pc = "for" =>
                  \A k \in DOMAIN toy.b :
                      /\ 2 * k <= Len(toy.a)
                      /\ toy.b[k] = [x |-> toy.a[2 * k - 1], y |-> toy.a[2 * k]]
            /\ pc \in {"result", "computed"} =>
                  /\ Len(toy.a) = 1
                  /\ ret[1] = toy.a[1]
                  /\ compute(ret[1]) = (arg * (arg + 1)) \div 2
            /\ pc = "computed" => ret[2] = (arg * (arg + 1)) \div 2
            /\ (pc = "computed" /\ arg = 16) => ret[2] = 136)
    /\ [][(IsPowerOfTwo(arg) /\ pc = "for" /\ pc' = "while") =>
             2 * Len(toy'.a) = Len(toy.a)]_vars
    /\ (IsPowerOfTwo(arg) /\ arg > 1) ~> (pc = "computed")

\* The list 1..16 was reduced and the result computed.
C30_Witness ==
    /\ pc = "computed"
    /\ arg = 16
    /\ ret[2] = 136

====
